---- MODULE Spec2Model ----
(***************************************************************************)
(* State-machine model of the browser tracking script                      *)
(* src/src/tracker/index.js.                                                *)
(*                                                                         *)
(* JavaScript values are modelled as strings; the sentinels below stand    *)
(* for the non-string values the script tests for.  An href is a string    *)
(* (as in the script); `new URL(...)` is modelled by ParseUrl/Resolve and   *)
(* `.toString()` by UrlToString.                                            *)
(***************************************************************************)
EXTENDS Integers, Sequences, FiniteSets, TLC

VARIABLES
    cfg,          \* script-tag attributes and browser environment (fixed per page)
    page,         \* what the host page, the visitor and the server do on this page (fixed)
    started,      \* the script body has run (window.umami is exposed)
    readyState,   \* document.readyState
    listening,    \* init is registered on 'readystatechange'
    initialized,  \* let initialized
    hooked,       \* history.pushState/replaceState are wrapped and the click listener is installed
    ls,           \* localStorage.getItem('umami.disabled')
    location,     \* location.href
    currentUrl,   \* let currentUrl
    currentRef,   \* let currentRef
    disabled,     \* let disabled
    cache,        \* let cache
    identity,     \* let identity
    inflight,     \* fetch requests whose response has not been processed, in send order:
                  \* [id, nav]; what each one carried is in lastCall when it is issued
    sent,         \* number of fetch requests issued so far
    timers,       \* pending setTimeout(track, delayDuration) callbacks, in firing order
    blocked,      \* clicks whose default navigation was prevented and not yet replayed
    reactions,    \* reactions of onClick (line 178) whose promise is resolved and that
                  \* have not run yet: the task that dispatched the click goes on
    unloaded,     \* the tracker navigated the page away
    stopSeen,     \* history: a response with disabled = true has been processed
    lastToken,    \* history: token of the most recently processed response that carried one
    identSince,   \* history: identify() was called since that response
    preIdentify,  \* history: [inflight: the ids of the requests in flight that were
                  \* sent before the latest identify() call, cache: the cache variable
                  \* holds a token issued in response to such a request]
    lastHook,     \* the call of a wrapped history method made by the step that led to
                  \* this state, if any
    lastCall,     \* the send attempt made by the step that led to this state, if any,
                  \* with the request it issued
    lastSettle    \* the response processing done by the step that led to this state, if any

vars == << cfg, page, started, readyState, listening, initialized, hooked, ls, location,
           currentUrl, currentRef, disabled, cache, identity, inflight, sent, timers,
           blocked, reactions, unloaded, stopSeen, lastToken, identSince, preIdentify,
           lastHook, lastCall, lastSettle >>

(***************************************************************************)
(* Bounds of the model.                                                    *)
(***************************************************************************)
MaxSends == 3       \* fetch requests issued in one page lifetime
MaxInflight == 2    \* fetch requests awaiting their response at the same time
MaxTimers == 2      \* pending delayed page views
MaxClicks == 1      \* prevented link clicks awaiting their navigation

(***************************************************************************)
(* JavaScript values.                                                      *)
(***************************************************************************)
Undefined == "<undefined>"
Null == "<null>"
False == "<false>"
True == "<true>"
Zero == "<0>"
One == "<1>"

Falsy == {Undefined, Null, False, Zero, ""}
Truthy(v) == v \notin Falsy

\* A value handed to send(): an object (a record of string fields) or a primitive.
Obj(r) == [t |-> "object", v |-> r]
Prim(s) == [t |-> "prim", v |-> s]
TruthyVal(x) == x.t = "object" \/ Truthy(x.v)

\* {...p, f: v}
With(p, f, v) == [k \in DOMAIN p \cup {f} |-> IF k = f THEN v ELSE p[k]]

\* JSON.stringify drops the properties whose value is undefined.
Json(p) == [k \in {j \in DOMAIN p : p[j] # Undefined} |-> p[k]]

(***************************************************************************)
(* URLs.                                                                   *)
(***************************************************************************)
Origin == "https://site.com"
ExtReferrer == "https://ext.org/"
DataScheme == "data:"

Paths == {"/a", "/b"}
Searches == {"", "?q=1"}
Hashes == {"", "#h"}

UrlSpace == [origin : {Origin}, path : Paths, search : Searches, hash : Hashes]

UrlToString(u) == u.origin \o u.path \o u.search \o u.hash

Hrefs == {UrlToString(u) : u \in UrlSpace}

ParseUrl(s) == CHOOSE u \in UrlSpace : UrlToString(u) = s

StartsWithData(s) == s = DataScheme
StartsWithOrigin(s) == s \in Hrefs

\* The url argument of history.pushState / replaceState.
UrlArgs ==
    {[kind |-> "empty", path |-> "", search |-> "", hash |-> ""],
     [kind |-> "invalid", path |-> "", search |-> "", hash |-> ""],
     [kind |-> "path", path |-> "/b", search |-> "", hash |-> ""],
     [kind |-> "path", path |-> "/a", search |-> "", hash |-> ""],
     [kind |-> "path", path |-> "/b", search |-> "?q=1", hash |-> "#h"],
     [kind |-> "query", path |-> "", search |-> "?q=1", hash |-> ""],
     [kind |-> "hash", path |-> "", search |-> "", hash |-> "#h"]}

ArgTruthy(arg) == arg.kind # "empty"

\* new URL(url, location.href) throws on a url that does not parse.
ResolveThrows(arg, base) == arg.kind = "invalid"

\* new URL(url, location.href)
Resolve(arg, base) ==
    LET b == ParseUrl(base) IN
    CASE arg.kind = "path"  -> [origin |-> b.origin, path |-> arg.path,
                                search |-> arg.search, hash |-> arg.hash]
      [] arg.kind = "query" -> [origin |-> b.origin, path |-> b.path,
                                search |-> arg.search, hash |-> ""]
      [] arg.kind = "hash"  -> [origin |-> b.origin, path |-> b.path,
                                search |-> b.search, hash |-> arg.hash]
      [] OTHER              -> b

(***************************************************************************)
(* Configuration read from the script tag (lines 38-47) and the browser.   *)
(***************************************************************************)
Hostname == "site.com"
Screen == "1920x1080"
Language == "en-US"
Title == "Page"

\* Variant: the attribute compared with the boolean false instead of the string.
AutoTrackComparedWithBoolean == cfg.autoTrackAttr # False
\* const autoTrack = attr('data-auto-track') !== 'false'
AutoTrack == cfg.autoTrackAttr # "false"
Dnt == cfg.dntAttr = "true"
ExcludeSearch == cfg.excludeSearchAttr = "true"
ExcludeHash == cfg.excludeHashAttr = "true"

\* String.prototype.trim on the segments used by the model.
Trim(s) ==
    CASE s = " site.com" -> "site.com"
      [] s = "site.com " -> "site.com"
      [] s = " "         -> ""
      [] OTHER           -> s

\* attr('data-domains') || '' : non-empty unless the attribute is absent or "".
DomainTruthy == cfg.domainAttr.present /\ cfg.domainAttr.segs # <<"">>
\* domain.split(',').map(n => n.trim())
Domains == IF DomainTruthy
           THEN {Trim(cfg.domainAttr.segs[i]) : i \in 1..Len(cfg.domainAttr.segs)}
           ELSE {""}

\* const localStorage = href.startsWith('data:') ? undefined : window.localStorage
LocalStorageAvailable == ~StartsWithData(cfg.href)

\* const tag = attr('data-tag') || undefined
Tag == IF Truthy(cfg.tagAttr) THEN cfg.tagAttr ELSE Undefined

\* Variant: only the string '1' is recognised.
HasDoNotTrackStringOnly ==
    LET dnt == IF Truthy(cfg.wDnt) THEN cfg.wDnt
               ELSE IF Truthy(cfg.nDnt) THEN cfg.nDnt
               ELSE cfg.msDnt
    IN dnt = "1"

HasDoNotTrack ==
    LET dnt == IF Truthy(cfg.wDnt) THEN cfg.wDnt
               ELSE IF Truthy(cfg.nDnt) THEN cfg.nDnt
               ELSE cfg.msDnt
    IN dnt = One \/ dnt = "1" \/ dnt = "yes"

TrackingDisabled(dis, lsv) ==
    \/ dis
    \/ ~Truthy(cfg.website)
    \/ (LocalStorageAvailable /\ Truthy(lsv))
    \/ (DomainTruthy /\ Hostname \notin Domains)
    \/ (Dnt /\ HasDoNotTrack)

\* Variant: an empty referrer is left out (referrer: currentRef || undefined).
GetPayloadOmitsEmptyReferrer(url, ref, ident) ==
    [website  |-> cfg.website,
     screen   |-> Screen,
     language |-> Language,
     title    |-> Title,
     hostname |-> Hostname,
     url      |-> url,
     referrer |-> IF Truthy(ref) THEN ref ELSE Undefined,
     tag      |-> Tag,
     id       |-> IF Truthy(ident) THEN ident ELSE Undefined]

GetPayload(url, ref, ident) ==
    [website  |-> cfg.website,
     screen   |-> Screen,
     language |-> Language,
     title    |-> Title,
     hostname |-> Hostname,
     url      |-> url,
     referrer |-> ref,
     tag      |-> Tag,
     id       |-> IF Truthy(ident) THEN ident ELSE Undefined]


(***************************************************************************)
(* send (lines 202-241).                                                   *)
(***************************************************************************)
NoHeader == "<no header>"
TokNames == <<"tok1", "tok2", "tok3", "tok4", "tok5", "tok6">>
\* The session token the server issues in its response to request number i.
Tok(i) == TokNames[i]

\* What window[beforeSend] can be when send looks it up: not a function, or a
\* function that returns its argument, another object, a falsy value, or throws.
CallbackKinds == {"nofn", "pass", "replace", "null", "undefined", "false", "zero",
                  "empty", "throw"}
Callbacks == IF cfg.beforeSend = Null THEN {"nofn"} ELSE page.callbacks

CbObject == [website |-> "site-id", url |-> "/redacted"]

\* callback(type, payload)
CallbackReturn(cb, type, payload) ==
    CASE cb = "pass"      -> payload
      [] cb = "replace"   -> Obj(CbObject)
      [] cb = "null"      -> Prim(Null)
      [] cb = "undefined" -> Prim(Undefined)
      [] cb = "false"     -> Prim(False)
      [] cb = "zero"      -> Prim(Zero)
      [] cb = "empty"     -> Prim("")
      [] OTHER            -> payload

\* headers: ...(typeof cache !== 'undefined' && { 'x-umami-cache': cache })
CacheHeader(cch) == IF cch # Undefined THEN cch ELSE NoHeader

NoBody == [type |-> "", payload |-> [k \in {} |-> ""]]

\* Variant: the callback is called for its verdict only and the original payload
\* is sent.
SendResultKeepsPayload(payload, type, cb, dis, lsv, cch) ==
    IF TrackingDisabled(dis, lsv)
    THEN [outcome |-> "disabled", cbInvoked |-> FALSE, ret |-> payload,
          body |-> NoBody, header |-> NoHeader, disabled |-> dis, cache |-> cch]
    ELSE IF cb = "throw"
    THEN [outcome |-> "threw", cbInvoked |-> TRUE, ret |-> payload,
          body |-> NoBody, header |-> NoHeader, disabled |-> dis, cache |-> cch]
    ELSE LET p == IF cb = "nofn" THEN payload ELSE CallbackReturn(cb, type, payload)
         IN IF ~TruthyVal(p)
            THEN [outcome |-> "dropped", cbInvoked |-> cb # "nofn", ret |-> p,
                  body |-> NoBody, header |-> NoHeader, disabled |-> dis, cache |-> cch]
            ELSE [outcome |-> "sent", cbInvoked |-> cb # "nofn", ret |-> p,
                  body |-> [type |-> type, payload |-> Json(payload.v)],
                  header |-> CacheHeader(cch), disabled |-> dis, cache |-> cch]

\* The synchronous part of send, up to and including the call of fetch.
\*   outcome: "disabled" (line 204), "threw" (the callback threw, line 209),
\*            "dropped" (line 213), "sent" (fetch was called, line 217).
SendResult(payload, type, cb, dis, lsv, cch) ==
    IF TrackingDisabled(dis, lsv)
    THEN [outcome |-> "disabled", cbInvoked |-> FALSE, ret |-> payload,
          body |-> NoBody, header |-> NoHeader, disabled |-> dis, cache |-> cch]
    ELSE IF cb = "throw"
    THEN [outcome |-> "threw", cbInvoked |-> TRUE, ret |-> payload,
          body |-> NoBody, header |-> NoHeader, disabled |-> dis, cache |-> cch]
    ELSE LET p == IF cb = "nofn" THEN payload ELSE CallbackReturn(cb, type, payload)
         IN IF ~TruthyVal(p)
            THEN [outcome |-> "dropped", cbInvoked |-> cb # "nofn", ret |-> p,
                  body |-> NoBody, header |-> NoHeader, disabled |-> dis, cache |-> cch]
            ELSE [outcome |-> "sent", cbInvoked |-> cb # "nofn", ret |-> p,
                  body |-> [type |-> type, payload |-> Json(p.v)],
                  header |-> CacheHeader(cch), disabled |-> dis, cache |-> cch]

\* The promise send returns once its synchronous part has run.
PromiseAfterSend(outcome) ==
    CASE outcome = "sent"  -> "pending"
      [] outcome = "threw" -> "rejected"
      [] OTHER             -> "resolved"

NoExp == [url |-> Undefined, ref |-> Undefined]

NoReq ==
    [id |-> 0, body |-> NoBody, header |-> NoHeader, origin |-> "none", arg |-> "none",
     cbApplied |-> FALSE, nav |-> FALSE, exp |-> NoExp]

NoCall ==
    [outcome |-> "none", cbInvoked |-> FALSE, ret |-> Prim(Undefined),
     cacheIn |-> Undefined, disabledIn |-> FALSE, sentIn |-> 0, req |-> NoReq]

NoSettle == [kind |-> "none", promise |-> "none", id |-> 0]

NoPreIdentify == [inflight |-> {}, cache |-> FALSE]

NoHook == [wrapped |-> FALSE, callback |-> "none", origCalls |-> 0, origAfter |-> FALSE]

\* One call of send from `origin` (arg: the kind of argument track was given, or
\* "identify"); cch is the value of cache when send is entered.
\* nav: the caller navigates once the returned promise resolves (onClick, line 178).
\* exp: for a delayed page view, the url and referrer of the navigation that scheduled it.
DoSend(payload, type, origin, arg, cb, cch, nav, exp) ==
    \E r \in {SendResult(payload, type, cb, disabled, ls, cch)} :
    LET req == [id |-> sent + 1, body |-> r.body, header |-> r.header,
                origin |-> origin, arg |-> arg, cbApplied |-> r.cbInvoked,
                nav |-> nav, exp |-> exp]
    IN /\ r.outcome = "sent" => (sent < MaxSends /\ Len(inflight) < MaxInflight)
       /\ inflight' = IF r.outcome = "sent"
                      THEN Append(inflight, [id |-> sent + 1, nav |-> nav])
                      ELSE inflight
       /\ sent' = IF r.outcome = "sent" THEN sent + 1 ELSE sent
       /\ disabled' = r.disabled
       /\ cache' = r.cache
       /\ lastCall' = [outcome |-> r.outcome, cbInvoked |-> r.cbInvoked,
                       ret |-> IF r.cbInvoked THEN r.ret ELSE Prim(Undefined),
                       cacheIn |-> cch, disabledIn |-> disabled, sentIn |-> sent,
                       req |-> IF r.outcome = "sent" THEN req ELSE NoReq]
       /\ lastSettle' = NoSettle
       /\ lastHook' = NoHook

\* A step that calls send neither directly nor indirectly.
NoSend ==
    /\ UNCHANGED << inflight, sent, disabled, cache >>
    /\ lastCall' = NoCall
    /\ lastSettle' = NoSettle
    /\ lastHook' = NoHook

(***************************************************************************)
(* track (lines 254-263) and identify (lines 266-282).                     *)
(***************************************************************************)
ObjA == [name |-> "signup"]
EmptyObj == [k \in {} |-> ""]

\* The arguments the host page passes to umami.track: nothing, a name with data,
\* null, an object, a function that extends the payload, a function returning null.
TrackArgs ==
    {[kind |-> "none", name |-> Undefined, data |-> Undefined, obj |-> EmptyObj],
     [kind |-> "string", name |-> "signup", data |-> "props", obj |-> EmptyObj],
     [kind |-> "object", name |-> Null, data |-> Undefined, obj |-> EmptyObj],
     [kind |-> "object", name |-> "", data |-> Undefined, obj |-> ObjA],
     [kind |-> "function", name |-> "augment", data |-> Undefined, obj |-> EmptyObj],
     [kind |-> "function", name |-> "null", data |-> Undefined, obj |-> EmptyObj]}

\* name(getPayload()) for the functions the model passes to track.
ApplyFn(fn, p) ==
    CASE fn = "augment" -> Obj(With(p, "name", "fn-event"))
      [] OTHER          -> Prim(Null)

\* The value track hands to send.
TrackValue(a, p) ==
    CASE a.kind = "string"   -> Obj(With(With(p, "name", a.name), "data", a.data))
      [] a.kind = "object"   -> Obj(a.obj)
      [] a.kind = "function" -> ApplyFn(a.name, p)
      [] OTHER               -> Obj(p)

NoArg == [kind |-> "none", name |-> Undefined, data |-> Undefined, obj |-> EmptyObj]

\* track(name, data) called from `origin`.
Track(a, origin, cb, nav, exp) ==
    DoSend(TrackValue(a, GetPayload(currentUrl, currentRef, identity)),
           "event", origin, a.kind, cb, cache, nav, exp)

\* The first argument of umami.identify.
IdArgs == {[t |-> "string", v |-> "user-1"],
           [t |-> "object", v |-> "traits"],
           [t |-> "undefined", v |-> Undefined]}

(***************************************************************************)
(* Initial state: the script's `let` declarations (lines 295-300) on a     *)
(* page whose script tag and browser are described by cfg.                 *)
(***************************************************************************)
DefaultCfg ==
    [website |-> "site-id", beforeSend |-> Null, tagAttr |-> Null,
     autoTrackAttr |-> Null, dntAttr |-> Null,
     excludeSearchAttr |-> Null, excludeHashAttr |-> Null,
     domainAttr |-> [present |-> FALSE, segs |-> <<"">>],
     wDnt |-> Undefined, nDnt |-> Null, msDnt |-> Undefined,
     href |-> "https://site.com/a", referrer |-> ""]

LsValues == {Null, "", "1"}
ReadyStates == {"loading", "interactive", "complete"}

InitWith(configs, pages, lsInit, readyInit) ==
    /\ cfg \in configs
    /\ page \in pages
    /\ started = FALSE
    /\ readyState \in readyInit
    /\ listening = FALSE
    /\ initialized = FALSE
    /\ hooked = FALSE
    /\ ls \in lsInit
    /\ location = cfg.href
    /\ currentUrl = cfg.href
    /\ currentRef = IF StartsWithOrigin(cfg.referrer) THEN "" ELSE cfg.referrer
    /\ disabled = FALSE
    /\ cache = Undefined
    /\ identity = Undefined
    /\ inflight = <<>>
    /\ sent = 0
    /\ timers = <<>>
    /\ blocked = 0
    /\ reactions = 0
    /\ unloaded = FALSE
    /\ stopSeen = FALSE
    /\ lastToken = Undefined
    /\ identSince = FALSE
    /\ preIdentify = NoPreIdentify
    /\ lastHook = NoHook
    /\ lastCall = NoCall
    /\ lastSettle = NoSettle

(***************************************************************************)
(* init (lines 244-251) and the start block (lines 303-311).               *)
(***************************************************************************)
\* init(): the initial page view, then the history hooks and the click listener.
InitTracker(cb) ==
    IF ~initialized
    THEN /\ initialized' = TRUE
         /\ Track(NoArg, "init", cb, FALSE, NoExp)
         /\ hooked' = TRUE
    ELSE /\ UNCHANGED << initialized, hooked >>
         /\ NoSend

\* if (autoTrack && !trackingDisabled()), line 303
AutoStart == AutoTrack /\ ~TrackingDisabled(disabled, ls)

\* The script body runs.
Start ==
    /\ ~started
    /\ started' = TRUE
    /\ IF AutoStart
       THEN IF readyState = "complete"
            THEN /\ \E cb \in Callbacks : InitTracker(cb)
                 /\ UNCHANGED listening
            ELSE /\ listening' = TRUE
                 /\ UNCHANGED << initialized, hooked >>
                 /\ NoSend
       ELSE /\ UNCHANGED << listening, initialized, hooked >>
            /\ NoSend
    /\ UNCHANGED << cfg, page, readyState, ls, location, currentUrl, currentRef,
                    identity, timers, blocked, reactions, unloaded, stopSeen, lastToken,
                    identSince, preIdentify >>

NextReadyState(r) == IF r = "loading" THEN "interactive" ELSE "complete"

\* The document fires 'readystatechange'.
ReadyStateChange ==
    /\ started /\ ~unloaded
    /\ reactions = 0
    /\ readyState # "complete"
    /\ readyState' = NextReadyState(readyState)
    /\ IF listening
       THEN \E cb \in Callbacks : InitTracker(cb)
       ELSE /\ UNCHANGED << initialized, hooked >>
            /\ NoSend
    /\ UNCHANGED << cfg, page, started, listening, ls, location, currentUrl, currentRef,
                    identity, timers, blocked, reactions, unloaded, stopSeen, lastToken,
                    identSince, preIdentify >>

(***************************************************************************)
(* handlePush (lines 91-109) behind the hook of handlePathChanges          *)
(* (lines 113-126).                                                        *)
(***************************************************************************)
\* currentUrl.search = '' / currentUrl.hash = '' / currentUrl.toString()
Tracked(u) ==
    LET a == IF ExcludeSearch THEN [u EXCEPT !.search = ""] ELSE u
        b == IF ExcludeHash THEN [a EXCEPT !.hash = ""] ELSE a
    IN UrlToString(b)

\* callback.apply(null, args): handlePush returns, or new URL(url, location.href)
\* throws out of it.
HandlePushResult(arg, base) ==
    IF ArgTruthy(arg) /\ ResolveThrows(arg, base) THEN "threw" ELSE "returned"

\* return orig.apply(_this, args) is reached when the callback returned.
OrigCalls(result) == IF result = "returned" THEN 1 ELSE 0

\* One call of the function hook returns (lines 117-120).
HookCall(arg, base) ==
    LET result == HandlePushResult(arg, base)
    IN [wrapped |-> TRUE, callback |-> result, origCalls |-> OrigCalls(result),
        origAfter |-> (OrigCalls(result) = 1)]

\* The host page calls history.pushState or history.replaceState with url argument arg.
HistoryCall ==
    /\ started /\ ~unloaded
    /\ \E arg \in page.navArgs :
         LET pushes == hooked /\ ArgTruthy(arg)
             throws == ResolveThrows(arg, location)
             new == Tracked(Resolve(arg, location))
         IN /\ lastHook' = IF hooked THEN HookCall(arg, location) ELSE NoHook
            /\ currentRef' = IF pushes THEN currentUrl ELSE currentRef
            /\ currentUrl' = IF pushes /\ ~throws THEN new ELSE currentUrl
            /\ IF pushes /\ ~throws /\ new # currentUrl
               THEN /\ Len(timers) < MaxTimers
                    /\ timers' = Append(timers, [url |-> new, ref |-> currentUrl])
               ELSE UNCHANGED timers
            /\ location' = IF ArgTruthy(arg) /\ ~throws
                           THEN UrlToString(Resolve(arg, location))
                           ELSE location
    /\ UNCHANGED << inflight, sent, disabled, cache >>
    /\ lastCall' = NoCall
    /\ lastSettle' = NoSettle
    /\ UNCHANGED << cfg, page, started, readyState, listening, initialized, hooked, ls,
                    identity, blocked, reactions, unloaded, stopSeen, lastToken,
                    identSince, preIdentify >>

\* A setTimeout(track, delayDuration) callback scheduled by handlePush runs.
TimerFires ==
    /\ ~unloaded
    /\ reactions = 0
    /\ timers # <<>>
    /\ timers' = Tail(timers)
    /\ \E cb \in Callbacks : Track(NoArg, "history", cb, FALSE, Head(timers))
    /\ UNCHANGED << cfg, page, started, readyState, listening, initialized, hooked, ls,
                    location, currentUrl, currentRef, identity, blocked, reactions,
                    unloaded, stopSeen, lastToken, identSince, preIdentify >>

(***************************************************************************)
(* handleClicks (lines 129-189).                                           *)
(***************************************************************************)
\* What was clicked: an element without data-umami-event; an element outside any
\* a/button with it; a button with it; an <a> with it and no href; an <a> with it
\* and an href; the same opened in a new tab or window.
ClickKinds == {"untracked", "element", "button", "anchor-no-href", "link", "link-new-tab"}

ClickArg == [kind |-> "string", name |-> "click-event", data |-> "attrs", obj |-> EmptyObj]

\* The promise onClick waits for before it navigates (line 178).
ClickPromise(cb) ==
    PromiseAfterSend(SendResult(TrackValue(ClickArg,
                                           GetPayload(currentUrl, currentRef, identity)),
                                "event", cb, disabled, ls, cache).outcome)

Click ==
    /\ hooked /\ ~unloaded
    /\ \E k \in page.clickKinds, cb \in Callbacks :
         CASE k \in {"untracked", "anchor-no-href"} ->
                /\ NoSend
                /\ UNCHANGED << blocked, reactions >>
           [] k \in {"element", "button", "link-new-tab"} ->
                /\ Track(ClickArg, "click", cb, FALSE, NoExp)
                /\ UNCHANGED << blocked, reactions >>
           [] OTHER ->
                \* an internal link: e.preventDefault(), the send attempt, and the
                \* navigation left to a reaction on the promise of trackElement;
                \* when send returned without a request the promise is resolved
                \* already and the reaction runs once the current task has ended
                /\ blocked < MaxClicks
                /\ Track(ClickArg, "click", cb, TRUE, NoExp)
                /\ blocked' = blocked + 1
                /\ reactions' = IF ClickPromise(cb) = "resolved"
                                THEN reactions + 1 ELSE reactions
    /\ UNCHANGED << cfg, page, started, readyState, listening, initialized, hooked, ls,
                    location, currentUrl, currentRef, identity, timers, unloaded,
                    stopSeen, lastToken, identSince, preIdentify >>

\* The reaction of onClick on a promise that was resolved when send returned runs:
\* (target === '_top' ? top.location : location).href = href (lines 178-183).
ClickReaction ==
    /\ ~unloaded
    /\ reactions > 0
    /\ reactions' = reactions - 1
    /\ blocked' = blocked - 1
    /\ unloaded' = TRUE
    /\ NoSend
    /\ UNCHANGED << cfg, page, started, readyState, listening, initialized, hooked, ls,
                    location, currentUrl, currentRef, identity, timers, stopSeen,
                    lastToken, identSince, preIdentify >>

(***************************************************************************)
(* The public API: umami.track and umami.identify.                         *)
(***************************************************************************)
ApiTrack ==
    /\ started /\ ~unloaded
    /\ \E a \in page.trackArgs, cb \in Callbacks : Track(a, "track", cb, FALSE, NoExp)
    /\ UNCHANGED << cfg, page, started, readyState, listening, initialized, hooked, ls,
                    location, currentUrl, currentRef, identity, timers, blocked,
                    reactions, unloaded, stopSeen, lastToken, identSince, preIdentify >>

ApiIdentify ==
    /\ started /\ ~unloaded
    /\ \E id \in page.idArgs, data \in page.idData, cb \in Callbacks :
         LET ident == IF id.t = "string" THEN id.v ELSE identity
         IN /\ identity' = ident
            /\ DoSend(Obj(With(GetPayload(currentUrl, currentRef, ident), "data",
                               IF id.t = "object" THEN id.v ELSE data)),
                      "identify", "identify", "identify", cb, "", FALSE, NoExp)
    /\ identSince' = TRUE
    /\ preIdentify' = [inflight |-> {inflight[i].id : i \in 1..Len(inflight)},
                        cache |-> FALSE]
    /\ UNCHANGED << cfg, page, started, readyState, listening, initialized, hooked, ls,
                    location, currentUrl, currentRef, timers, blocked, reactions,
                    unloaded, stopSeen, lastToken >>

(***************************************************************************)
(* The rest of send (lines 215-240): the response is processed.            *)
(***************************************************************************)
\* What the network can deliver: fetch rejects; the body is not JSON; the body is
\* the JSON null; the body is an object with or without `disabled` and `cache`.
OutcomeSpace ==
    [kind : {"reject", "badjson", "null"}, disabled : {Undefined}, token : {FALSE}]
    \cup [kind : {"data"}, disabled : {Undefined, True, False}, token : BOOLEAN]

\* fetch rejected, or res.json() rejected: control leaves the try block.
ThrowsInTry(out) == out.kind \in {"reject", "badjson"}
\* Variant: only a rejected fetch is caught (fetch(...).catch(() => {})).
CaughtFetchOnly(out) == out.kind = "reject"
\* catch (e) { /* no-op */ }
Caught(out) == TRUE
\* if (data)
DataTruthy(out) == out.kind = "data"
\* data.cache in the response to request number id
DataCache(out, id) == IF out.token THEN Tok(id) ELSE Undefined

\* disabled = !!data.disabled
DisabledAfter(out, dis) == IF DataTruthy(out) THEN out.disabled = True ELSE dis
\* cache = data.cache
CacheAfter(out, id, cch) == IF DataTruthy(out) THEN DataCache(out, id) ELSE cch
\* The promise returned by send settles.
PromiseAfter(out) == IF ThrowsInTry(out) /\ ~Caught(out) THEN "rejected" ELSE "resolved"

RemoveAt(q, i) == [j \in 1..(Len(q) - 1) |-> IF j < i THEN q[j] ELSE q[j + 1]]

Respond ==
    /\ ~unloaded
    /\ reactions = 0
    /\ \E i \in 1..Len(inflight) : \E out \in page.outcomes :
         LET r == inflight[i]
             p == PromiseAfter(out)
             carries == DataTruthy(out) /\ out.token
         IN /\ inflight' = RemoveAt(inflight, i)
            /\ disabled' = DisabledAfter(out, disabled)
            /\ cache' = CacheAfter(out, r.id, cache)
            /\ stopSeen' = (stopSeen \/ (DataTruthy(out) /\ out.disabled = True))
            /\ lastToken' = IF carries THEN Tok(r.id) ELSE lastToken
            /\ identSince' = IF carries THEN FALSE ELSE identSince
            /\ preIdentify' =
                 [inflight |-> preIdentify.inflight \ {r.id},
                  cache |-> IF DataTruthy(out)
                            THEN out.token /\ r.id \in preIdentify.inflight
                            ELSE preIdentify.cache]
            /\ lastSettle' = [kind |-> out.kind, promise |-> p, id |-> r.id]
            /\ blocked' = IF r.nav /\ p = "resolved" THEN blocked - 1 ELSE blocked
            /\ unloaded' = (r.nav /\ p = "resolved")
    /\ lastCall' = NoCall
    /\ lastHook' = NoHook
    /\ UNCHANGED << cfg, page, started, readyState, listening, initialized, hooked, ls,
                    location, currentUrl, currentRef, identity, sent, timers,
                    reactions >>

\* The visitor (or the host page) sets, changes or removes localStorage['umami.disabled'].
SetStorage ==
    /\ ~unloaded
    /\ \E v \in page.lsValues \ {ls} : ls' = v
    /\ NoSend
    /\ UNCHANGED << cfg, page, started, readyState, listening, initialized, hooked,
                    location, currentUrl, currentRef, identity, timers, blocked,
                    reactions, unloaded, stopSeen, lastToken, identSince, preIdentify >>

Next ==
    \/ Start
    \/ ReadyStateChange
    \/ HistoryCall
    \/ TimerFires
    \/ Click
    \/ ClickReaction
    \/ ApiTrack
    \/ ApiIdentify
    \/ Respond
    \/ SetStorage

(***************************************************************************)
(* Pages.  Each specification explores the tracker on a family of pages:   *)
(* script-tag configurations together with what the host page, the         *)
(* visitor and the server do.                                              *)
(***************************************************************************)
PathB == [kind |-> "path", path |-> "/b", search |-> "", hash |-> ""]
PathA == [kind |-> "path", path |-> "/a", search |-> "", hash |-> ""]
NoTrackArg == [kind |-> "none", name |-> Undefined, data |-> Undefined, obj |-> EmptyObj]
DataOutcomes == {o \in OutcomeSpace : o.kind = "data"}
PlainOk == [kind |-> "data", disabled |-> Undefined, token |-> TRUE]

DomainAbsent == [present |-> FALSE, segs |-> <<"">>]

\* A page that navigates between two paths, tracks page views and a link, and
\* identifies the visitor; the server answers in every possible way.
SessionPage ==
    [navArgs |-> {PathB}, trackArgs |-> {NoTrackArg},
     idArgs |-> {[t |-> "string", v |-> "user-1"]}, idData |-> {Undefined},
     clickKinds |-> {"link"}, callbacks |-> {"nofn"},
     outcomes |-> {o \in OutcomeSpace : o.disabled # False}, lsValues |-> {Null, "1"}]

Init == InitWith({DefaultCfg}, {SessionPage}, {Null}, {"interactive"})

Spec == Init /\ [][Next]_vars

\* A plain page whose script tag is met at any stage of the document's loading.
LoadPage ==
    [navArgs |-> {PathB}, trackArgs |-> {NoTrackArg},
     idArgs |-> {[t |-> "string", v |-> "user-1"]}, idData |-> {Undefined},
     clickKinds |-> {"link"}, callbacks |-> {"nofn"},
     outcomes |-> {PlainOk}, lsValues |-> {Null, "1"}]

InitLoad == InitWith({DefaultCfg}, {LoadPage}, {Null}, ReadyStates)

SpecLoad == InitLoad /\ [][Next]_vars

\* A page that uses every entry point of the tracker, with and without a
\* before-send callback that replaces the payload.
EntryPage ==
    [navArgs |-> {PathB}, trackArgs |-> TrackArgs, idArgs |-> IdArgs,
     idData |-> {"props"}, clickKinds |-> ClickKinds,
     callbacks |-> {"replace"},
     outcomes |-> {PlainOk}, lsValues |-> {Null, "1"}]

InitEntry ==
    InitWith({DefaultCfg,
              [DefaultCfg EXCEPT !.beforeSend = "beforeSendFn", !.tagAttr = "blog"]},
             {EntryPage}, {Null}, {"interactive"})

SpecEntry == InitEntry /\ [][Next]_vars

\* A page with tracked links and buttons and a before-send callback that can
\* pass, drop or throw; the server answers, fails or disables tracking.
ClickPage ==
    [navArgs |-> {PathB}, trackArgs |-> {NoTrackArg},
     idArgs |-> {[t |-> "string", v |-> "user-1"]}, idData |-> {Undefined},
     clickKinds |-> ClickKinds, callbacks |-> {"nofn", "pass", "null", "throw"},
     outcomes |-> {o \in OutcomeSpace : o.kind = "reject" \/ (o.kind = "data" /\ o.token)},
     lsValues |-> {Null, "1"}]

InitClick ==
    InitWith({DefaultCfg, [DefaultCfg EXCEPT !.beforeSend = "beforeSendFn"]},
             {ClickPage}, {Null}, {"interactive"})

SpecClick == InitClick /\ [][Next]_vars

\* A single-page application that navigates with every kind of url argument, with
\* data-exclude-search, data-exclude-hash or both, or reached from another page.
UrlPage ==
    [navArgs |-> {a \in UrlArgs : a.path = ""}, trackArgs |-> {NoTrackArg},
     idArgs |-> {[t |-> "string", v |-> "user-1"]}, idData |-> {Undefined},
     clickKinds |-> {"link"}, callbacks |-> {"nofn"},
     outcomes |-> {PlainOk}, lsValues |-> {Null, "1"}]

InitUrl ==
    InitWith({[DefaultCfg EXCEPT !.excludeSearchAttr = x.es, !.excludeHashAttr = x.eh,
                                 !.href = "https://site.com/a?q=1#h"] :
                 x \in [es : {Null, "true"}, eh : {Null, "true"}] \
                          {[es |-> Null, eh |-> Null]}}
             \cup {[DefaultCfg EXCEPT !.referrer = r] :
                      r \in {ExtReferrer, "https://site.com/b"}},
             {UrlPage}, {Null}, {"interactive"})

SpecUrl == InitUrl /\ [][Next]_vars

\* Pages under every configuration that can switch tracking off.
GatePage ==
    [navArgs |-> {PathB}, trackArgs |-> {NoTrackArg},
     idArgs |-> {[t |-> "string", v |-> "user-1"]}, idData |-> {Undefined},
     clickKinds |-> {"link"}, callbacks |-> {"pass"},
     outcomes |-> {PlainOk}, lsValues |-> LsValues]

DomainAttrs ==
    {DomainAbsent,
     [present |-> TRUE, segs |-> <<"">>],
     [present |-> TRUE, segs |-> <<" ">>],
     [present |-> TRUE, segs |-> <<"site.com">>],
     [present |-> TRUE, segs |-> <<"other.com">>],
     [present |-> TRUE, segs |-> <<"other.com", " site.com">>],
     [present |-> TRUE, segs |-> <<"other.com", "">>]}

DntReadings ==
    [w : {Undefined}, n : {Null, "1", "yes", One, "0"}, ms : {Undefined}]
    \cup [w : {"1"}, n : {Null, "0"}, ms : {Undefined}]
    \cup [w : {Undefined}, n : {Null}, ms : {"1"}]

GateBase == [DefaultCfg EXCEPT !.beforeSend = "beforeSendFn"]

\* One way of switching tracking off is varied at a time.
GateConfigs ==
    {[GateBase EXCEPT !.website = w] : w \in {"site-id", Null, ""}}
    \cup {[GateBase EXCEPT !.domainAttr = d] : d \in DomainAttrs}
    \cup {[GateBase EXCEPT !.dntAttr = "true", !.wDnt = r.w, !.nDnt = r.n,
                            !.msDnt = r.ms] : r \in DntReadings}
    \cup {[GateBase EXCEPT !.dntAttr = a, !.nDnt = "1"] : a \in {Null, "false"}}
    \cup {[GateBase EXCEPT !.autoTrackAttr = a] : a \in {"true", "false"}}

InitGate == InitWith(GateConfigs, {GatePage}, LsValues, {"interactive"})

SpecGate == InitGate /\ [][Next]_vars

\* A page whose before-send callback can do anything, on a session whose token
\* changes.
CallbackPage ==
    [navArgs |-> {PathB}, trackArgs |-> {a \in TrackArgs : a.kind = "string"},
     idArgs |-> {[t |-> "string", v |-> "user-1"]}, idData |-> {Undefined},
     clickKinds |-> {"link"}, callbacks |-> CallbackKinds \ {"nofn", "throw"},
     outcomes |-> {o \in OutcomeSpace : o.kind = "data" /\ o.disabled = Undefined},
     lsValues |-> {Null, "1"}]

InitCallback ==
    InitWith({[DefaultCfg EXCEPT !.beforeSend = "beforeSendFn"]},
             {CallbackPage}, {Null}, {"interactive"})

SpecCallback == InitCallback /\ [][Next]_vars

(***************************************************************************)
(* Properties.  lastCall describes the send attempt of the step that led   *)
(* to the current state, lastCall.req the request it issued; a property of *)
(* every request is stated of the request at the moment it is issued.      *)
(***************************************************************************)
Issued == lastCall.outcome = "sent"
Attempted == lastCall.outcome # "none"
IssuedPayload == lastCall.req.body.payload

\* C1 (as claimed): once a response with disabled = true has been processed, the
\* tracker issues no further request, in whatever order later responses arrive.
C1_NoRequestAfterDisabled == Issued => ~stopSeen

\* C2 (as claimed): a request issued after a response carrying a token was processed
\* carries, in x-umami-cache, the token of the latest such response, unless
\* identify() was called since; a later response without a token changes nothing.
C2_EchoesLatestToken ==
    (Issued /\ lastToken # Undefined /\ ~identSince) => lastCall.req.header = lastToken

RequiredFields == {"website", "screen", "language", "title", "hostname", "url", "referrer"}
RequestTypes == {"event", "identify"}

\* C3 (as claimed): every request has a body {type, payload} with type "event" or
\* "identify" and a payload holding the website id, screen, language, title,
\* hostname, url and referrer, whatever the entry point.
C3_EveryPayloadHasRequiredFields ==
    Issued => /\ lastCall.req.body.type \in RequestTypes
              /\ RequiredFields \subseteq DOMAIN IssuedPayload

\* C3 (amended): every request has type "event" or "identify"; the payload holds
\* the seven fields when it was built by the tracker (initial and history page
\* views, clicks, track() and track(name, data), identify) and no before-send
\* callback was applied to it.  track(object) and track(function) send what the
\* host page supplied.
C3_BuiltPayloadHasRequiredFields ==
    Issued => /\ lastCall.req.body.type \in RequestTypes
              /\ (lastCall.req.arg \in {"none", "string", "identify"}
                  /\ ~lastCall.req.cbApplied)
                 => RequiredFields \subseteq DOMAIN IssuedPayload

C3_Witness ==
    /\ Issued
    /\ lastCall.req.origin = "history"
    /\ lastCall.req.body.type = "event"
    /\ RequiredFields \subseteq DOMAIN IssuedPayload
    /\ IssuedPayload.referrer # ""

\* C4: whatever the network delivers (fetch rejects, the body is not JSON, the
\* body is null, or a JSON object), the promise returned by send resolves: no
\* exception leaves the tracker.
C4_DeliveryFailureIsSilent ==
    lastSettle.kind # "none" => lastSettle.promise = "resolved"

C4_Witness ==
    /\ lastSettle.kind = "badjson"
    /\ lastSettle.promise = "resolved"
    /\ Len(inflight) > 0

NavWaiting == Cardinality({i \in 1..Len(inflight) : inflight[i].nav})

\* C5 (as claimed): a click on a tracked internal link whose default was prevented
\* is followed by the navigation, and not before its tracking attempt has
\* finished: every prevented click that has not navigated yet either has its
\* request in flight or has its navigation waiting for the current task to end.
C5_PreventedClickNavigates ==
    blocked = NavWaiting + reactions

BuiltByTracker == lastCall.req.arg \in {"none", "string", "identify"}

\* C6 (as claimed): with data-exclude-search="true" (data-exclude-hash="true") no
\* payload built by the tracker carries a url with a query string (a fragment),
\* the initial page view included.
C6_ExcludedPartsNeverSent ==
    (Issued /\ BuiltByTracker /\ ~lastCall.req.cbApplied) =>
        /\ ExcludeSearch => ParseUrl(IssuedPayload.url).search = ""
        /\ ExcludeHash => ParseUrl(IssuedPayload.url).hash = ""

\* The browser reports one Do Not Track value, and it is 1, "1" or "yes".
BrowserSaysDoNotTrack ==
    \E v \in {One, "1", "yes"} : {cfg.wDnt, cfg.nDnt, cfg.msDnt} \ {Undefined, Null} = {v}

\* The conditions under which the tracker is claimed not to send.
ConfiguredOff ==
    \/ cfg.website \in {Null, ""}
    \/ ls # Null
    \/ (cfg.domainAttr.present
        /\ Hostname \notin {Trim(cfg.domainAttr.segs[i]) : i \in 1..Len(cfg.domainAttr.segs)})
    \/ (cfg.dntAttr = "true" /\ BrowserSaysDoNotTrack)

\* The same, with a non-empty value required of the localStorage key and of
\* data-domains.
ConfiguredOffNonEmpty ==
    \/ cfg.website \in {Null, ""}
    \/ ls \notin {Null, ""}
    \/ (cfg.domainAttr.present /\ cfg.domainAttr.segs # <<"">>
        /\ Hostname \notin {Trim(cfg.domainAttr.segs[i]) : i \in 1..Len(cfg.domainAttr.segs)})
    \/ (cfg.dntAttr = "true" /\ BrowserSaysDoNotTrack)

NothingSent ==
    /\ lastCall.outcome = "disabled"
    /\ ~lastCall.cbInvoked
    /\ lastCall.req = NoReq
    /\ sent = lastCall.sentIn

\* C7 (as claimed): a send attempt made while the website id is missing, the
\* localStorage key umami.disabled is set, data-domains is configured without the
\* page's hostname, or data-do-not-track="true" with a Do Not Track value of 1, "1"
\* or "yes", sends nothing and does not invoke the before-send callback.
C7_ConfiguredOffSendsNothing == (Attempted /\ ConfiguredOff) => NothingSent

\* C7 (amended): the same, where the localStorage key holds a non-empty value and
\* data-domains is a non-empty list without the page's hostname.
C7_NonEmptyOffSendsNothing == (Attempted /\ ConfiguredOffNonEmpty) => NothingSent

C7_Witness ==
    /\ Attempted /\ ConfiguredOffNonEmpty /\ NothingSent
    /\ initialized /\ ~disabled

\* C8: with data-auto-track="false" nothing is installed (no readystatechange
\* listener, no initial page view, no history hook, no click listener, no delayed
\* page view) and every request comes from umami.track or umami.identify.
C8_ManualModeSendsOnlyOnRequest ==
    cfg.autoTrackAttr = "false" =>
        /\ ~listening /\ ~initialized /\ ~hooked
        /\ timers = <<>>
        /\ Issued => lastCall.req.origin \in {"track", "identify"}

C8_Witness ==
    /\ cfg.autoTrackAttr = "false"
    /\ Issued /\ lastCall.req.origin = "track"
    /\ readyState = "complete"
    /\ location # cfg.href

\* C9: when the before-send callback returns a falsy value, nothing is sent and
\* disabled and cache are as they were when send was entered; when it returns
\* anything else, the payload of the request body is that value.
C9_CallbackDecides ==
    (lastCall.cbInvoked /\ lastCall.outcome # "threw") =>
        IF TruthyVal(lastCall.ret)
        THEN /\ Issued
             /\ IssuedPayload = Json(lastCall.ret.v)
        ELSE /\ lastCall.outcome = "dropped"
             /\ lastCall.req = NoReq
             /\ sent = lastCall.sentIn
             /\ disabled = lastCall.disabledIn
             /\ cache = lastCall.cacheIn

C9_Witness ==
    /\ lastCall.cbInvoked /\ lastCall.outcome = "dropped"
    /\ lastCall.ret = Prim(False)
    /\ cache \notin {Undefined, ""}
    /\ sent > 0

\* C10 (as claimed): the page view of a history navigation carries the url of that
\* navigation and, as referrer, the url tracked immediately before it, also when
\* several navigations fall within the delay.
C10_PageViewMatchesNavigation ==
    (Issued /\ lastCall.req.origin = "history") =>
        /\ IssuedPayload.url = lastCall.req.exp.url
        /\ IssuedPayload.referrer = lastCall.req.exp.ref

\* C11 (as claimed): once identify() was called, no request (the identify request
\* included) carries a token issued in response to a request sent before that
\* call, also when that response is processed after the call.
C11_NoStaleTokenAfterIdentify ==
    Issued => ~(preIdentify.cache /\ lastCall.req.header = lastCall.cacheIn)

\* C12 (as claimed): when the script ran before the document finished loading
\* (it registered the readystatechange listener), the initial page view is sent
\* and the history and click hooks are installed only once document.readyState
\* is 'complete'.
C12_InitWaitsForComplete ==
    (listening /\ readyState # "complete") =>
        /\ ~initialized
        /\ ~hooked
        /\ ~(Issued /\ lastCall.req.origin = "init")

\* C13 (as claimed): a call of the wrapped pushState or replaceState invokes the
\* original method exactly once, after the tracker's callback, whatever url
\* argument it is given.
C13_HookAlwaysCallsOriginal ==
    lastHook.wrapped => (lastHook.origCalls = 1 /\ lastHook.origAfter)

\* C14 (as claimed): requests are issued in the order of the events that caused
\* them: no click, umami.track or umami.identify request is issued while the
\* page view of an earlier history navigation is still to be sent.
C14_RequestsInEventOrder ==
    (Issued /\ lastCall.req.origin \in {"click", "track", "identify"}) => timers = <<>>

====
